---- MODULE Spec2Model ----
\* Model of the /enrich websocket dispatcher (backend/main.py) and of the
\* provider retry / fallback policy (backend/vision_llm.py).
\*
\* One connection is modelled.  The event loop is cooperative: every action
\* below is the code one coroutine runs between two suspension points.
EXTENDS Integers, Sequences, FiniteSets, TLC

\* ---------------------------------------------------------------- bounds
MaxUnits == 2        \* requests accepted on the connection
MaxInvalid == 1      \* malformed frames dropped on the connection

Units == 1..MaxUnits

\* ------------------------------------------------------- JSON and payloads
Null == "None"

IdentificationFields == {"name", "brand", "model", "color", "category", "description"}
PriceEstimateFields == {"range_low", "range_high", "currency", "note"}
EnrichmentFields == {"summary", "price_estimate", "specs", "search_query"}

\* Mutant of FALLBACK_RESPONSE: the category is not taken from the label.
FALLBACK_RESPONSE_UnknownCategory(yolo_label) ==
    [identification |->
        [name |-> yolo_label, brand |-> Null, model |-> Null,
         color |-> "unknown", category |-> "unknown",
         description |-> yolo_label],
     enrichment |->
        [summary |-> "",
         price_estimate |->
            [range_low |-> "", range_high |-> "", currency |-> "USD", note |-> ""],
         specs |-> <<>>,
         search_query |-> yolo_label]]

\* vision_llm.FALLBACK_RESPONSE
FALLBACK_RESPONSE(yolo_label) ==
    [identification |->
        [name |-> yolo_label, brand |-> Null, model |-> Null,
         color |-> "unknown", category |-> yolo_label,
         description |-> yolo_label],
     enrichment |->
        [summary |-> "",
         price_estimate |->
            [range_low |-> "", range_high |-> "", currency |-> "USD", note |-> ""],
         specs |-> <<>>,
         search_query |-> yolo_label]]

\* Values json.loads can hand back from _call_once: a well-shaped object, a
\* well-shaped object with one more top-level key, and an object that lacks
\* the "enrichment" key.
ResultPlain ==
    [identification |->
        [name |-> "Travel Mug", brand |-> "Acme", model |-> Null,
         color |-> "blue", category |-> "drinkware", description |-> "A mug"],
     enrichment |->
        [summary |-> "Insulated",
         price_estimate |->
            [range_low |-> "$10", range_high |-> "$20", currency |-> "USD",
             note |-> "retail"],
         specs |-> <<>>,
         search_query |-> "acme travel mug"]]

ResultExtraKey ==
    [identification |-> ResultPlain.identification,
     enrichment |-> [ResultPlain.enrichment EXCEPT !.summary = "Steel"],
     confidence |-> "high"]

ResultMissingKey == [identification |-> ResultPlain.identification]

ProviderResults == {ResultPlain, ResultExtraKey, ResultMissingKey}

\* Exception classes a provider call can raise.
ProviderExceptions == {"JSONDecodeError", "RuntimeError", "APITimeoutError"}

\* Mutant of Retryable: the except clauses of call_vision_llm name Exception.
RetryableAnyException(exc) == TRUE

\* vision_llm.call_vision_llm: except (json.JSONDecodeError, ValueError, KeyError)
Retryable(exc) == exc \in {"JSONDecodeError", "ValueError", "KeyError"}

\* Mutant of ClientGone: the except clauses name WebSocketDisconnect only.
ClientGoneDisconnectOnly(exc) == exc = "WebSocketDisconnect"

\* main.process_request: except (WebSocketDisconnect, RuntimeError)
ClientGone(exc) == exc \in {"WebSocketDisconnect", "RuntimeError"}

\* models.EnrichmentResponse(trackId=..., **result): the keyword call fails on
\* a second "trackId", validation fails on a missing field.
Validates(result) ==
    /\ "trackId" \notin DOMAIN result
    /\ {"identification", "enrichment"} \subseteq DOMAIN result
    /\ IdentificationFields \subseteq DOMAIN result.identification
    /\ EnrichmentFields \subseteq DOMAIN result.enrichment
    /\ PriceEstimateFields \subseteq DOMAIN result.enrichment.price_estimate

\* Mutant of model_dump: the brand is not carried over.
model_dump_DropsBrand(trackId, result) ==
    [trackId |-> trackId,
     identification |->
        [f \in IdentificationFields |->
            IF f = "brand" THEN Null ELSE result.identification[f]],
     enrichment |->
        [summary |-> result.enrichment.summary,
         price_estimate |->
            [f \in PriceEstimateFields |-> result.enrichment.price_estimate[f]],
         specs |-> result.enrichment.specs,
         search_query |-> result.enrichment.search_query]]

\* EnrichmentResponse(...).model_dump(): the declared fields only.
model_dump(trackId, result) ==
    [trackId |-> trackId,
     identification |-> [f \in IdentificationFields |-> result.identification[f]],
     enrichment |->
        [summary |-> result.enrichment.summary,
         price_estimate |->
            [f \in PriceEstimateFields |-> result.enrichment.price_estimate[f]],
         specs |-> result.enrichment.specs,
         search_query |-> result.enrichment.search_query]]

\* main.process_request line 52
ErrorMarker(trackId) == [error |-> TRUE, trackId |-> trackId]

NoMessage == [none |-> TRUE]

\* ----------------------------------------------------------- inbound frames
\* A text frame is either not JSON, a JSON value that is not an object, or a
\* JSON object whose members carry a JSON type.
JInt(v) == [type |-> "int", val |-> v]
JStr(v) == [type |-> "str", val |-> v]
JFloat(v) == [type |-> "float", val |-> v]

ValidObject(trackId, label) ==
    [trackId |-> JInt(trackId), label |-> JStr(label),
     confidence |-> JFloat("0.9"), cropBase64 |-> JStr("/9j/4AAQ")]

FrameNotJson == [json |-> FALSE]
FrameNotObject == [json |-> TRUE, object |-> FALSE]
FrameObject(members) == [json |-> TRUE, object |-> TRUE, members |-> members]

FrameMissingField ==
    FrameObject([label |-> JStr("mug"), confidence |-> JFloat("0.9"),
                 cropBase64 |-> JStr("/9j/4AAQ")])
FrameWrongType ==
    FrameObject([ValidObject(1, "mug") EXCEPT !.label = JInt(7)])
FrameExtraField(trackId, label) ==
    FrameObject([trackId |-> JInt(trackId), label |-> JStr(label),
                 confidence |-> JFloat("0.9"), cropBase64 |-> JStr("/9j/4AAQ"),
                 frameNo |-> JInt(3)])

ValidFrames == {FrameObject(ValidObject(1, "mug")), FrameObject(ValidObject(2, "person"))}
ExtraFieldFrames == {FrameExtraField(1, "mug")}
BadFrames == {FrameNotJson, FrameNotObject, FrameMissingField, FrameWrongType}
Frames == ValidFrames \cup ExtraFieldFrames \cup BadFrames

\* models.EnrichmentRequest: four required fields, undeclared members ignored.
RequestFields == {"trackId", "label", "confidence", "cropBase64"}
FieldTypes(f) ==
    CASE f = "trackId" -> {"int"}
      [] f = "label" -> {"str"}
      [] f = "confidence" -> {"float", "int"}
      [] f = "cropBase64" -> {"str"}

\* Mutant of Decode: the request model forbids undeclared members.
DecodeForbidExtra(frame) ==
    IF ~frame.json THEN "JSONDecodeError"
    ELSE IF ~frame.object THEN "TypeError"
    ELSE IF \/ DOMAIN frame.members # RequestFields
            \/ \E f \in RequestFields :
                  frame.members[f].type \notin FieldTypes(f)
         THEN "ValidationError"
         ELSE "ok"

\* main.enrich lines 59-60: receive_json() then EnrichmentRequest(**data).
\* The result is the exception class raised, or "ok".
Decode(frame) ==
    IF ~frame.json THEN "JSONDecodeError"
    ELSE IF ~frame.object THEN "TypeError"
    ELSE IF \E f \in RequestFields :
                \/ f \notin DOMAIN frame.members
                \/ frame.members[f].type \notin FieldTypes(f)
         THEN "ValidationError"
         ELSE "ok"

Decoded(frame) ==
    [trackId |-> frame.members.trackId.val, label |-> frame.members.label.val,
     cropBase64 |-> frame.members.cropBase64.val]

NoRequest == [trackId |-> 0, label |-> "", cropBase64 |-> ""]

\* main.enrich line 61: except (ValueError, ValidationError); JSONDecodeError
\* is a ValueError.
InvalidRequest(exc) == exc \in {"ValueError", "JSONDecodeError", "ValidationError"}

\* ------------------------------------------------------------------- state
VARIABLES
    conn,        \* the transport: "open" or "closed"
    dpc,         \* position of enrich: "receive", "gather", "returned"
    exit,        \* exception that ended the read loop, "none" before
    tasks,       \* the set `tasks` of enrich
    waiting,     \* children of the gather() whose completion it has not seen
    accepted,    \* number of units created so far
    invalid,     \* number of "Invalid request" frames dropped
    request,     \* request[u]: the EnrichmentRequest bound to unit u
    upc,         \* position of unit u
    mustCancel,  \* cancel() was called on unit u and not yet delivered
    attempts,    \* attempts[u]: outcomes of the provider calls of unit u
    response,    \* message unit u is inside send_json with
    outcome,     \* how unit u ended
    outbound     \* messages delivered to the peer, in order

vars == <<conn, dpc, exit, tasks, waiting, accepted, invalid, request, upc,
          mustCancel, attempts, response, outcome, outbound>>

dispatcherVars == <<dpc, exit, tasks, waiting, accepted, invalid>>
unitVars == <<request, upc, mustCancel, attempts, response, outcome>>

Init ==
    /\ conn = "open"
    /\ dpc = "receive"
    /\ exit = "none"
    /\ tasks = {}
    /\ waiting = {}
    /\ accepted = 0
    /\ invalid = 0
    /\ request = [u \in Units |-> NoRequest]
    /\ upc = [u \in Units |-> "none"]
    /\ mustCancel = [u \in Units |-> FALSE]
    /\ attempts = [u \in Units |-> <<>>]
    /\ response = [u \in Units |-> NoMessage]
    /\ outcome = [u \in Units |-> "none"]
    /\ outbound = <<>>

\* ------------------------------------------------------ request processor
Returned(result) == [exc |-> "none", value |-> result]
Raised(exc) == [exc |-> exc, value |-> NoMessage]

\* Exception classes send_json raises on a transport that is gone: the
\* websocket turns a failed transport write into WebSocketDisconnect and
\* refuses a send after the close with RuntimeError; these are the two
\* classes lines 46 and 53 name.
SendExceptions == {"WebSocketDisconnect", "RuntimeError"}

\* Mutant of RequestOf: the unit reads the loop variable `request` of enrich,
\* which holds the request decoded last.
RequestOfLoopVariable(u) == request[accepted]

\* process_request(request): the request a unit works on is its parameter.
RequestOf(u) == request[u]

\* The unit enters `await websocket.send_json(msg)`.
EnterSend(u, pc, msg) ==
    /\ upc' = [upc EXCEPT ![u] = pc]
    /\ response' = [response EXCEPT ![u] = msg]
    /\ UNCHANGED outcome

\* The unit's coroutine ends.
Finish(u, how) ==
    /\ upc' = [upc EXCEPT ![u] = "done"]
    /\ response' = [response EXCEPT ![u] = NoMessage]
    /\ outcome' = [outcome EXCEPT ![u] = how]

\* main.process_request lines 46-54: an exception raised in the try body.
Handle(u, exc) ==
    IF ClientGone(exc)
    THEN Finish(u, "suppressed")
    ELSE EnterSend(u, "sendErr", ErrorMarker(RequestOf(u).trackId))

\* main.process_request lines 41-45: call_vision_llm returned `result`.
Respond(u, result) ==
    IF Validates(result)
    THEN EnterSend(u, "send", model_dump(RequestOf(u).trackId, result))
    ELSE Handle(u, "ValidationError")

\* The task starts running and reaches the first _call_once.
StartTask(u) ==
    /\ upc[u] = "created"
    /\ ~mustCancel[u]
    /\ upc' = [upc EXCEPT ![u] = "call1"]
    /\ UNCHANGED <<conn, dispatcherVars, request, mustCancel, attempts,
                   response, outcome, outbound>>

\* Mutant of ProviderReturns: cancellation is a flag the unit only looks at
\* later, so a cancelled unit still takes the result of its call.
ProviderReturnsToCancelled(u, result) ==
    /\ upc[u] \in {"call1", "call2"}
    /\ attempts' = [attempts EXCEPT ![u] = Append(@, Returned(result))]
    /\ Respond(u, result)
    /\ UNCHANGED <<conn, dispatcherVars, request, mustCancel, outbound>>

\* vision_llm.call_vision_llm lines 156 and 162: _call_once returns.
ProviderReturns(u, result) ==
    /\ upc[u] \in {"call1", "call2"}
    /\ ~mustCancel[u]
    /\ attempts' = [attempts EXCEPT ![u] = Append(@, Returned(result))]
    /\ Respond(u, result)
    /\ UNCHANGED <<conn, dispatcherVars, request, mustCancel, outbound>>

\* vision_llm.call_vision_llm lines 157-166: _call_once raises.
ProviderRaises(u, exc) ==
    /\ upc[u] \in {"call1", "call2"}
    /\ ~mustCancel[u]
    /\ attempts' = [attempts EXCEPT ![u] = Append(@, Raised(exc))]
    /\ IF Retryable(exc)
       THEN IF upc[u] = "call1"
            THEN /\ upc' = [upc EXCEPT ![u] = "call2"]
                 /\ UNCHANGED <<response, outcome>>
            ELSE Respond(u, FALLBACK_RESPONSE(RequestOf(u).label))
       ELSE Handle(u, exc)
    /\ UNCHANGED <<conn, dispatcherVars, request, mustCancel, outbound>>

\* websocket.send_json hands the message to an open transport.
SendReturns(u) ==
    /\ upc[u] \in {"send", "sendErr"}
    /\ ~mustCancel[u]
    /\ conn = "open"
    /\ outbound' = Append(outbound, [unit |-> u, msg |-> response[u]])
    /\ Finish(u, IF upc[u] = "send" THEN "sent" ELSE "sentError")
    /\ UNCHANGED <<conn, dispatcherVars, request, mustCancel, attempts>>

\* websocket.send_json raises because the transport is gone
\* (main.process_request lines 46-54).
SendRaises(u, exc) ==
    /\ upc[u] \in {"send", "sendErr"}
    /\ ~mustCancel[u]
    /\ conn # "open"
    /\ IF upc[u] = "send"
       THEN Handle(u, exc)
       ELSE Finish(u, IF ClientGone(exc) THEN "suppressed" ELSE "raised")
    /\ UNCHANGED <<conn, dispatcherVars, request, mustCancel, attempts, outbound>>

\* Mutant of TaskCancelled: the except clauses of call_vision_llm absorb the
\* CancelledError like a parse failure, so the unit retries or falls back.
TaskCancelledAbsorbed(u, wrote) ==
    /\ mustCancel[u]
    /\ upc[u] # "done"
    /\ wrote => (upc[u] \in {"send", "sendErr"} /\ conn = "open")
    /\ mustCancel' = [mustCancel EXCEPT ![u] = FALSE]
    /\ outbound' = IF wrote
                   THEN Append(outbound, [unit |-> u, msg |-> response[u]])
                   ELSE outbound
    /\ IF upc[u] = "call1"
       THEN /\ upc' = [upc EXCEPT ![u] = "call2"]
            /\ UNCHANGED <<response, outcome>>
       ELSE IF upc[u] = "call2"
            THEN Respond(u, FALLBACK_RESPONSE(request[u].label))
            ELSE Finish(u, "cancelled")
    /\ UNCHANGED <<conn, dispatcherVars, request, attempts>>

\* Mutant of TaskCancelled: the CancelledError is caught by the handler of
\* line 49, which goes on to send the error marker.
TaskCancelledCaught(u, wrote) ==
    /\ mustCancel[u]
    /\ upc[u] # "done"
    /\ wrote => (upc[u] \in {"send", "sendErr"} /\ conn = "open")
    /\ mustCancel' = [mustCancel EXCEPT ![u] = FALSE]
    /\ outbound' = IF wrote
                   THEN Append(outbound, [unit |-> u, msg |-> response[u]])
                   ELSE outbound
    /\ IF upc[u] = "sendErr"
       THEN Finish(u, "cancelled")
       ELSE /\ upc' = [upc EXCEPT ![u] = "sendErr"]
            /\ response' = [response EXCEPT ![u] = ErrorMarker(request[u].trackId)]
            /\ UNCHANGED outcome
    /\ UNCHANGED <<conn, dispatcherVars, request, attempts>>

\* CancelledError is thrown into the unit at the await it is suspended in;
\* no except clause of process_request or call_vision_llm catches it.  A unit
\* suspended inside send_json may already have handed its frame over.
TaskCancelled(u, wrote) ==
    /\ mustCancel[u]
    /\ upc[u] # "done"
    /\ wrote => (upc[u] \in {"send", "sendErr"} /\ conn = "open")
    /\ mustCancel' = [mustCancel EXCEPT ![u] = FALSE]
    /\ outbound' = IF wrote
                   THEN Append(outbound, [unit |-> u, msg |-> response[u]])
                   ELSE outbound
    /\ Finish(u, "cancelled")
    /\ UNCHANGED <<conn, dispatcherVars, request, attempts>>

\* Mutant of DoneCallbacks: no done callback was registered on the task.
DoneCallbacksNoDiscard(u) ==
    /\ upc[u] = "done"
    /\ u \in waiting
    /\ waiting' = waiting \ {u}
    /\ UNCHANGED <<conn, dpc, exit, tasks, accepted, invalid, unitVars, outbound>>

\* main.enrich line 69: the done callback tasks.discard, followed by the
\* callback gather() registered on the same task.
DoneCallbacks(u) ==
    /\ upc[u] = "done"
    /\ u \in tasks \cup waiting
    /\ tasks' = tasks \ {u}
    /\ waiting' = waiting \ {u}
    /\ UNCHANGED <<conn, dpc, exit, accepted, invalid, unitVars, outbound>>

\* ------------------------------------------------------------- dispatcher
\* Mutant of CancelTargets: the units are awaited without being cancelled.
CancelNothing == {}

\* main.enrich lines 75-76: for t in tasks: t.cancel()
CancelTargets == {u \in tasks : upc[u] # "done"}

\* Mutant of GatherTargets: enrich returns without awaiting the units.
GatherNothing == {}

\* main.enrich lines 77-78: if tasks: await asyncio.gather(*tasks, ...)
GatherTargets == tasks

\* main.enrich lines 71-78: the read loop ended with exception exc.
Finally(exc) ==
    /\ exit' = exc
    /\ mustCancel' = [u \in Units |-> mustCancel[u] \/ u \in CancelTargets]
    /\ waiting' = GatherTargets
    /\ dpc' = IF GatherTargets # {} THEN "gather" ELSE "returned"
    /\ UNCHANGED <<conn, tasks, accepted, invalid, request, upc, attempts,
                   response, outcome, outbound>>

\* Mutant of ReaderReady: the reader awaits each unit before the next frame.
ReaderReadySequential ==
    dpc = "receive" /\ \A u \in Units : upc[u] \in {"none", "done"}

\* The reader is suspended in receive_json and nothing else holds it.
ReaderReady == dpc = "receive"

\* Mutant of ReceiveRequest: the task is created but not added to `tasks`.
ReceiveRequestUnregistered(frame) ==
    /\ ReaderReady
    /\ Decode(frame) = "ok"
    /\ accepted < MaxUnits
    /\ accepted' = accepted + 1
    /\ request' = [request EXCEPT ![accepted + 1] = Decoded(frame)]
    /\ upc' = [upc EXCEPT ![accepted + 1] = "created"]
    /\ UNCHANGED <<conn, dpc, exit, tasks, waiting, invalid, mustCancel,
                   attempts, response, outcome, outbound>>

\* main.enrich lines 59-69: a frame decodes; a task is created and registered.
ReceiveRequest(frame) ==
    /\ ReaderReady
    /\ Decode(frame) = "ok"
    /\ accepted < MaxUnits
    /\ accepted' = accepted + 1
    /\ request' = [request EXCEPT ![accepted + 1] = Decoded(frame)]
    /\ upc' = [upc EXCEPT ![accepted + 1] = "created"]
    /\ tasks' = tasks \cup {accepted + 1}
    /\ UNCHANGED <<conn, dpc, exit, waiting, invalid, mustCancel, attempts,
                   response, outcome, outbound>>

\* main.enrich lines 61-63: the frame is dropped and the loop continues.
ReceiveInvalid(frame) ==
    /\ ReaderReady
    /\ Decode(frame) # "ok"
    /\ InvalidRequest(Decode(frame))
    /\ invalid < MaxInvalid
    /\ invalid' = invalid + 1
    /\ UNCHANGED <<conn, dpc, exit, tasks, waiting, accepted, unitVars, outbound>>

\* main.enrich lines 59-63: decoding raises a class line 61 does not name.
ReceiveUncaught(frame) ==
    /\ ReaderReady
    /\ Decode(frame) # "ok"
    /\ ~InvalidRequest(Decode(frame))
    /\ Finally(Decode(frame))

\* What receive_json raises on a connection that is gone: the peer's
\* disconnect, or a transport error.
CloseExceptions == {"WebSocketDisconnect", "OSError"}

\* main.enrich lines 59, 71-73: receive_json raises on a closed connection.
ReceiveClosed(exc) ==
    /\ ReaderReady
    /\ conn = "closed"
    /\ Finally(exc)

\* main.enrich line 78: every gathered task has finished.
GatherReturns ==
    /\ dpc = "gather"
    /\ waiting = {}
    /\ dpc' = "returned"
    /\ UNCHANGED <<conn, exit, tasks, waiting, accepted, invalid, unitVars, outbound>>

\* The peer disconnects or the transport fails.
PeerClose ==
    /\ conn = "open"
    /\ conn' = "closed"
    /\ UNCHANGED <<dispatcherVars, unitVars, outbound>>

Next ==
    \/ \E frame \in Frames : ReceiveRequest(frame)
    \/ \E frame \in Frames : ReceiveInvalid(frame)
    \/ \E frame \in Frames : ReceiveUncaught(frame)
    \/ \E exc \in CloseExceptions : ReceiveClosed(exc)
    \/ GatherReturns
    \/ PeerClose
    \/ \E u \in Units : StartTask(u)
    \/ \E u \in Units, result \in ProviderResults : ProviderReturns(u, result)
    \/ \E u \in Units, exc \in ProviderExceptions : ProviderRaises(u, exc)
    \/ \E u \in Units : SendReturns(u)
    \/ \E u \in Units, exc \in SendExceptions : SendRaises(u, exc)
    \/ \E u \in Units, wrote \in BOOLEAN : TaskCancelled(u, wrote)
    \/ \E u \in Units : DoneCallbacks(u)

Spec == Init /\ [][Next]_vars

\* The event loop runs every ready callback; the provider and the peer are
\* under no obligation.
FairSpec ==
    /\ Spec
    /\ WF_vars(\E exc \in CloseExceptions : ReceiveClosed(exc))
    /\ WF_vars(GatherReturns)
    /\ \A u \in Units :
        /\ WF_vars(StartTask(u))
        /\ WF_vars(SendReturns(u))
        /\ WF_vars(\E exc \in SendExceptions : SendRaises(u, exc))
        /\ WF_vars(\E wrote \in BOOLEAN : TaskCancelled(u, wrote))
        /\ WF_vars(DoneCallbacks(u))

\* ----------------------------------------------------------------- claims
MessagesOf(u) == {i \in 1..Len(outbound) : outbound[i].unit = u}
Started(u) == upc[u] # "none"
Finished(u) == upc[u] = "done"
AwaitingProvider(u) == upc[u] \in {"call1", "call2"}
ParseShapeClasses == {"JSONDecodeError", "ValueError", "KeyError"}
SuccessKeys == {"trackId", "identification", "enrichment"}

\* C1: for every accepted request at most one message of its unit is ever
\* delivered on the outbound stream, and that message carries the trackId of
\* the request.
C1_AtMostOneMessage ==
    \A u \in Units :
        /\ Cardinality(MessagesOf(u)) <= 1
        /\ \A i \in MessagesOf(u) : outbound[i].msg.trackId = request[u].trackId

\* A unit was cancelled inside send_json after its frame went out, another
\* unit ended without any message.
C1_Witness ==
    /\ \E u \in Units :
        outcome[u] = "cancelled" /\ Cardinality(MessagesOf(u)) = 1
    /\ \E u \in Units : Finished(u) /\ MessagesOf(u) = {}

\* C2: when the read loop ends, every unit still in flight is signalled for
\* cancellation; a signalled unit ends cancelled at its next step; enrich has
\* returned only when every unit has finished; and once the connection has
\* closed enrich eventually returns.
C2_CloseCancelsAndDrains ==
    /\ [][(dpc = "receive" /\ dpc' # "receive") =>
            \A u \in tasks : ~Finished(u) => mustCancel'[u]]_vars
    /\ [][\A u \in Units :
            (mustCancel[u] /\ upc'[u] # upc[u]) =>
                (upc'[u] = "done" /\ outcome'[u] = "cancelled")]_vars
    /\ [](dpc = "returned" => \A u \in Units : Started(u) => Finished(u))
    /\ (conn = "closed") ~> (dpc = "returned")

\* Every unit was cancelled before a provider call resolved, nothing was
\* written, and enrich has returned after a peer disconnect.
C2_Witness ==
    /\ dpc = "returned"
    /\ exit = "WebSocketDisconnect"
    /\ conn = "closed"
    /\ outbound = <<>>
    /\ \A u \in Units : outcome[u] = "cancelled" /\ attempts[u] = <<>>

\* C3: once the connection has closed nothing more is delivered, and once
\* enrich has returned no unit takes a step: none enters send_json and none
\* delivers.
C3_NoWriteAfterClose ==
    [][/\ conn = "closed" => outbound' = outbound
       /\ dpc = "returned" => (outbound' = outbound /\ upc' = upc)]_vars

\* enrich has returned on a closed connection after one unit's write failed
\* and another unit was cancelled.
C3_Witness ==
    /\ dpc = "returned"
    /\ conn = "closed"
    /\ \E u \in Units : outcome[u] = "suppressed" /\ attempts[u] # <<>>
    /\ \E u \in Units : outcome[u] = "cancelled"

\* C4: whenever enrich has returned, `tasks` is empty and every unit started
\* on the connection has finished.
C4_TasksEmptyOnReturn ==
    dpc = "returned" =>
        /\ tasks = {}
        /\ \A u \in Units : Started(u) => Finished(u)

\* enrich returned after a transport error with every unit accepted and
\* some unit cancelled.
C4_Witness ==
    /\ dpc = "returned"
    /\ exit = "OSError"
    /\ accepted = MaxUnits
    /\ \E u \in Units : outcome[u] = "cancelled"

\* C5: a frame that does not decode into an EnrichmentRequest starts no unit,
\* produces no message and leaves the dispatcher in its read loop.
C5_BadFrameIsDropped ==
    [][\A frame \in BadFrames :
          (ReceiveInvalid(frame) \/ ReceiveUncaught(frame)) =>
              /\ dpc' = "receive"
              /\ accepted' = accepted
              /\ tasks' = tasks
              /\ outbound' = outbound]_vars

\* C6: a unit whose provider call raised a class outside the parse/shape
\* classes, on a connection still open and without being cancelled, has
\* delivered exactly the error marker of its trackId.
C6_HardErrorGivesMarker ==
    \A u \in Units :
        (/\ Finished(u)
         /\ conn = "open"
         /\ outcome[u] # "cancelled"
         /\ attempts[u] # <<>>
         /\ attempts[u][Len(attempts[u])].exc \notin ParseShapeClasses \cup {"none"})
        => /\ Cardinality(MessagesOf(u)) = 1
           /\ \A i \in MessagesOf(u) :
                outbound[i].msg = [error |-> TRUE, trackId |-> request[u].trackId]

\* C7: after two parse/shape failures there is no third call, the unit goes
\* on to send, and what it delivers is the fallback built from the label,
\* never an error marker.
BothAttemptsUnparseable(u) ==
    /\ Len(attempts[u]) = 2
    /\ attempts[u][1].exc \in ParseShapeClasses
    /\ attempts[u][2].exc \in ParseShapeClasses

FallbackMessage(u) ==
    [trackId |-> request[u].trackId,
     identification |->
        [name |-> request[u].label, brand |-> Null, model |-> Null,
         color |-> "unknown", category |-> request[u].label,
         description |-> request[u].label],
     enrichment |->
        [summary |-> "",
         price_estimate |->
            [range_low |-> "", range_high |-> "", currency |-> "USD", note |-> ""],
         specs |-> <<>>,
         search_query |-> request[u].label]]

C7_FallbackAfterTwoFailures ==
    \A u \in Units :
        BothAttemptsUnparseable(u) =>
            /\ ~AwaitingProvider(u)
            /\ outcome[u] # "sentError"
            /\ upc[u] = "send" => response[u] = FallbackMessage(u)
            /\ outcome[u] = "sent" => MessagesOf(u) # {}
            /\ \A i \in MessagesOf(u) : outbound[i].msg = FallbackMessage(u)

\* A unit failed to parse twice and delivered its fallback message.
C7_Witness ==
    \E u \in Units : BothAttemptsUnparseable(u) /\ outcome[u] = "sent"

\* C8: when the first provider call returns a result of the expected shape,
\* the provider is not called again and the message delivered carries the
\* trackId of the request and the result's identification and enrichment,
\* field for field.
FirstCallSucceeded(u) ==
    /\ attempts[u] # <<>>
    /\ attempts[u][1].exc = "none"
    /\ SuccessKeys \ {"trackId"} \subseteq DOMAIN attempts[u][1].value

C8_FirstSuccessForwarded ==
    \A u \in Units :
        FirstCallSucceeded(u) =>
            /\ Len(attempts[u]) = 1
            /\ ~AwaitingProvider(u)
            /\ outcome[u] = "sent" => MessagesOf(u) # {}
            /\ \A i \in MessagesOf(u) :
                /\ DOMAIN outbound[i].msg = SuccessKeys
                /\ outbound[i].msg.trackId = request[u].trackId
                /\ outbound[i].msg.identification = attempts[u][1].value.identification
                /\ outbound[i].msg.enrichment = attempts[u][1].value.enrichment

\* A first call returned a result with one more key and the unit delivered it.
C8_Witness ==
    \E u \in Units :
        /\ attempts[u] = <<Returned(ResultExtraKey)>>
        /\ outcome[u] = "sent"
        /\ MessagesOf(u) # {}

\* C9: every delivered message is the whole message of one unit: it has the
\* success shape or the marker shape, carries the trackId of that unit's own
\* request and the payload that unit's own provider calls produced; a unit
\* that wrote did so exactly once.
LastAttempt(u) == attempts[u][Len(attempts[u])]

HasPayload(u) ==
    /\ attempts[u] # <<>>
    /\ \/ BothAttemptsUnparseable(u)
       \/ /\ LastAttempt(u).exc = "none"
          /\ SuccessKeys \ {"trackId"} \subseteq DOMAIN LastAttempt(u).value

OwnPayload(u) ==
    IF LastAttempt(u).exc = "none" THEN LastAttempt(u).value ELSE FallbackMessage(u)

OwnMessage(u, m) ==
    /\ m.trackId = request[u].trackId
    /\ IF HasPayload(u)
       THEN /\ DOMAIN m = SuccessKeys
            /\ m.identification = OwnPayload(u).identification
            /\ m.enrichment = OwnPayload(u).enrichment
       ELSE /\ DOMAIN m = {"error", "trackId"}
            /\ m.error = TRUE

C9_WholeMessagesOncePerUnit ==
    /\ \A i \in 1..Len(outbound) : OwnMessage(outbound[i].unit, outbound[i].msg)
    /\ \A u \in Units :
        /\ outcome[u] \in {"sent", "sentError"} => Cardinality(MessagesOf(u)) = 1
        /\ Cardinality(MessagesOf(u)) <= 1

\* Two requests with different trackIds were answered in the reverse of their
\* arrival order.
C9_Witness ==
    /\ Len(outbound) = 2
    /\ outbound[1].unit = 2
    /\ outbound[2].unit = 1
    /\ request[1].trackId # request[2].trackId
    /\ outcome[1] = "sent"
    /\ outcome[2] = "sent"

\* C10: while the dispatcher is in its read loop it can accept the next valid
\* frame whatever the units started before are doing.
C10_ReaderNeverBlocked ==
    (dpc = "receive" /\ accepted < MaxUnits) =>
        ENABLED (\E frame \in ValidFrames : ReceiveRequest(frame))

\* Every unit the bound allows is awaiting the provider at the same time.
C10_Witness ==
    /\ dpc = "receive"
    /\ accepted = MaxUnits
    /\ MaxUnits > 1
    /\ \A u \in Units : AwaitingProvider(u)

\* C11: a unit whose provider call has returned or raised, on a connection
\* that stayed open and without being cancelled, has written exactly one
\* response; a unit ends with no response only on a connection that died.
C11_ResolvedCallIsAnswered ==
    \A u \in Units :
        (/\ Finished(u)
         /\ conn = "open"
         /\ outcome[u] # "cancelled"
         /\ attempts[u] # <<>>)
        => Cardinality(MessagesOf(u)) = 1

\* C12: a provider call that returns an object lacking an expected key is
\* treated as a parse/shape failure: after a first such result the unit is
\* in its second call or beyond it, and the unit never goes on to send an
\* error marker because of it.
LacksExpectedKey(attempt) ==
    /\ attempt.exc = "none"
    /\ ~(SuccessKeys \ {"trackId"} \subseteq DOMAIN attempt.value)

C12_MissingKeyIsRetried ==
    \A u \in Units :
        (attempts[u] # <<>> /\ LacksExpectedKey(attempts[u][1])) =>
            /\ upc[u] # "sendErr"
            /\ outcome[u] # "sentError"
            /\ Len(attempts[u]) = 1 => (upc[u] = "call2" \/ outcome[u] = "cancelled")

\* C13 as claimed: an object that lacks one of the four fields or carries one
\* more is dropped: receiving it starts no unit, delivers nothing and leaves
\* the dispatcher in its read loop.
MisshapenFrames == {FrameMissingField} \cup ExtraFieldFrames

ReceiveStep(frame) ==
    ReceiveRequest(frame) \/ ReceiveInvalid(frame) \/ ReceiveUncaught(frame)

C13_MisshapenObjectIsDropped ==
    [][\A frame \in MisshapenFrames :
          ReceiveStep(frame) =>
              /\ accepted' = accepted
              /\ tasks' = tasks
              /\ outbound' = outbound
              /\ dpc' = "receive"]_vars

\* C13 amended: an object that lacks one of the four fields is dropped as
\* above; an object that has the four fields and one more is accepted: it is
\* never dropped, and receiving it registers a unit bound to the four
\* declared fields.
C13_MissingDroppedExtraAccepted ==
    /\ [][ReceiveStep(FrameMissingField) =>
            /\ accepted' = accepted
            /\ tasks' = tasks
            /\ outbound' = outbound
            /\ dpc' = "receive"]_vars
    /\ [][\A frame \in ExtraFieldFrames :
            ReceiveStep(frame) =>
                /\ accepted' = accepted + 1
                /\ tasks' = tasks \cup {accepted'}
                /\ request'[accepted'].trackId = frame.members.trackId.val
                /\ request'[accepted'].label = frame.members.label.val
                /\ outbound' = outbound
                /\ dpc' = "receive"]_vars
    /\ [](\A frame \in ExtraFieldFrames :
            /\ ~ENABLED ReceiveInvalid(frame)
            /\ (dpc = "receive" /\ accepted < MaxUnits) => ENABLED ReceiveRequest(frame))

\* A frame was dropped and a unit is registered for the request an
\* extra-field frame decodes to, with the connection open and the reader in
\* its loop.
C13_Witness ==
    /\ invalid > 0
    /\ dpc = "receive"
    /\ conn = "open"
    /\ \E u \in tasks, frame \in ExtraFieldFrames : request[u] = Decoded(frame)

\* C14: the provider is invoked at most twice for a request; a second
\* invocation exists only after a first that raised a parse/shape class, and
\* a first invocation that raised any other class is the only one.
Invocations(u) == Len(attempts[u]) + (IF AwaitingProvider(u) THEN 1 ELSE 0)

C14_AtMostTwoInvocations ==
    \A u \in Units :
        /\ Invocations(u) <= 2
        /\ Invocations(u) = 2 => attempts[u][1].exc \in ParseShapeClasses
        /\ (attempts[u] # <<>> /\ attempts[u][1].exc \notin ParseShapeClasses) =>
                /\ Len(attempts[u]) = 1
                /\ ~AwaitingProvider(u)

\* One unit is in its second invocation after a parse failure while another
\* ended after a single invocation that raised a timeout.
C14_Witness ==
    /\ \E u \in Units : upc[u] = "call2" /\ Invocations(u) = 2
    /\ \E u \in Units :
        /\ attempts[u] = <<Raised("APITimeoutError")>>
        /\ Finished(u)

\* C15: a unit cancelled while its first or second provider call is
\* outstanding has written nothing, and its next step ends it: no provider
\* call follows, it never enters send_json and nothing is delivered.
CancelledInCall(u) == mustCancel[u] /\ AwaitingProvider(u)

C15_CancelledCallEndsSilently ==
    /\ [](\A u \in Units : CancelledInCall(u) => MessagesOf(u) = {})
    /\ [][\A u \in Units :
            (CancelledInCall(u) /\ upc'[u] # upc[u]) =>
                /\ upc'[u] = "done"
                /\ response'[u] = NoMessage
                /\ outbound' = outbound]_vars

\* A unit was cancelled during its second call, after one parse failure, and
\* ended with nothing written.
C15_Witness ==
    \E u \in Units :
        /\ outcome[u] = "cancelled"
        /\ Len(attempts[u]) = 1
        /\ attempts[u][1].exc \in ParseShapeClasses
        /\ MessagesOf(u) = {}

\* C16: `tasks` holds only units started on this connection and every
\* started unit that has not finished; accepting a request adds exactly its
\* unit; a unit leaves the set only once finished, alone, and its removal
\* waits for no other unit; the size of the set is the number of accepted
\* requests minus the number of units removed.
Deregistered == {u \in Units : Started(u) /\ u \notin tasks}

C16_TasksTracksUnits ==
    /\ [](/\ tasks \subseteq {u \in Units : Started(u)}
          /\ \A u \in Units : (Started(u) /\ ~Finished(u)) => u \in tasks
          /\ \A u \in tasks : Finished(u) => ENABLED DoneCallbacks(u)
          /\ Cardinality(tasks) = accepted - Cardinality(Deregistered))
    /\ [][accepted' # accepted => tasks' = tasks \cup {accepted'}]_vars
    /\ [][\A u \in tasks :
            u \notin tasks' => (Finished(u) /\ tasks' = tasks \ {u})]_vars

\* The unit started second has finished and left the set while the unit
\* started first is still in flight and in the set.
C16_Witness ==
    /\ accepted >= 2
    /\ tasks = {1}
    /\ ~Finished(1)
    /\ Finished(2)

\* C17: when a unit's send_json fails on a closed connection, whether for
\* the success payload or for the error marker, that step ends the unit
\* without an escaping exception and without entering another send_json,
\* and it changes nothing of the dispatcher or of any other unit.
WriteFails(u) == \E exc \in SendExceptions : SendRaises(u, exc)

C17_FailedWriteIsSuppressed ==
    /\ [](\A u \in Units : outcome[u] # "raised")
    /\ [][\A u \in Units :
            WriteFails(u) =>
                /\ upc'[u] = "done"
                /\ outcome'[u] = "suppressed"
                /\ UNCHANGED <<dispatcherVars, outbound>>
                /\ \A v \in Units \ {u} :
                    /\ upc'[v] = upc[v]
                    /\ mustCancel'[v] = mustCancel[v]
                    /\ outcome'[v] = outcome[v]]_vars

\* A unit's write failed after its provider call had returned; the reader is
\* still in its loop and a sibling unit is still in flight.
C17_Witness ==
    /\ dpc = "receive"
    /\ \E u \in Units :
        /\ outcome[u] = "suppressed"
        /\ attempts[u] # <<>>
        /\ attempts[u][Len(attempts[u])].exc = "none"
        /\ \E v \in Units \ {u} : Started(v) /\ ~Finished(v) /\ ~mustCancel[v]

\* C18: at most one unit of the session is inside send_json at a time.
InsideWrite(u) == upc[u] \in {"send", "sendErr"}

C18_OneWriterAtATime ==
    Cardinality({u \in Units : InsideWrite(u)}) <= 1

\* C19 as claimed: cancellation leaves the outstanding provider call to run,
\* so a unit leaves a provider call only by that call returning or raising,
\* which adds an entry to its attempts.
C19_CallRunsToCompletion ==
    [][\A u \in Units :
          (AwaitingProvider(u) /\ upc'[u] # upc[u]) =>
              Len(attempts'[u]) = Len(attempts[u]) + 1]_vars

\* C19 amended: cancellation interrupts the outstanding provider call: once
\* cancel() was called on a unit that awaits the provider, the unit cannot
\* take a result or an exception of that call any more, and its next step
\* ends it with its attempts unchanged, no retry and nothing written.
C19_CancelInterruptsCall ==
    /\ [](\A u \in Units :
            CancelledInCall(u) =>
                /\ ~ENABLED (\E result \in ProviderResults : ProviderReturns(u, result))
                /\ ~ENABLED (\E exc \in ProviderExceptions : ProviderRaises(u, exc)))
    /\ [][\A u \in Units :
            (CancelledInCall(u) /\ upc'[u] # upc[u]) =>
                /\ attempts'[u] = attempts[u]
                /\ outcome'[u] = "cancelled"
                /\ ~AwaitingProvider(u)'
                /\ outbound' = outbound]_vars

\* One unit ended cancelled in its first call, which never resolved, while
\* cancel() has been called on another that still awaits the provider.
C19_Witness ==
    /\ dpc = "gather"
    /\ \E u \in Units :
        /\ outcome[u] = "cancelled"
        /\ attempts[u] = <<>>
    /\ \E u \in Units : CancelledInCall(u)

\* C20: after a first attempt that raised a parse/shape class, a unit that
\* ran to its end on an open connection has written what the second attempt
\* alone decides: the second result if it returned one of the expected shape,
\* the error marker if it raised any other class, and the fallback payload
\* only if it raised a parse/shape class again.
SecondAttemptDecides(u) ==
    LET second == attempts[u][2]
        written == {outbound[i].msg : i \in MessagesOf(u)}
    IN  /\ (second.exc = "none" /\ ~LacksExpectedKey(second)) =>
                \E m \in written :
                    /\ DOMAIN m = SuccessKeys
                    /\ m.identification = second.value.identification
                    /\ m.enrichment = second.value.enrichment
        /\ second.exc \notin ParseShapeClasses \cup {"none"} =>
                written = {[error |-> TRUE, trackId |-> request[u].trackId]}
        /\ FallbackMessage(u) \in written => second.exc \in ParseShapeClasses

C20_SecondAttemptAloneDecides ==
    \A u \in Units :
        (/\ Len(attempts[u]) = 2
         /\ attempts[u][1].exc \in ParseShapeClasses
         /\ Finished(u)
         /\ conn = "open"
         /\ outcome[u] # "cancelled")
        => SecondAttemptDecides(u)
====
